---- MODULE Spec2Model ----
(***************************************************************************)
(* Tokenizer and document model of src/preprocess.py.                      *)
(*                                                                         *)
(* A text is a sequence of one-character strings.  A token is a record     *)
(* [cls, token]: cls is the Python class of the object (Word, Punctuation, *)
(* Number, Whitespace) and token its text.  A Sentence is a sequence of    *)
(* tokens, a Paragraph a sequence of Sentences, a Document a sequence of   *)
(* Paragraphs.                                                             *)
(***************************************************************************)
EXTENDS Integers, Sequences, FiniteSets, TLC

VARIABLES source, pc, lines, idx, line, sentence, paragraph, document,
          mtext, token, err, cur, prev, op

vars == <<source, pc, lines, idx, line, sentence, paragraph, document,
          mtext, token, err, cur, prev, op>>

----------------------------------------------------------------------------
(* Bounds of the explored inputs.                                          *)

\* longest source text
MaxText == 4
\* longest text that follows the first character in the classifier inputs
MaxTail == 2

----------------------------------------------------------------------------
(* Character classes of Token.PATTERN.                                     *)

UpperAlpha == <<"A","B","C","D","E","F","G","H","I","J","K","L","M",
                "N","O","P","Q","R","S","T","U","V","W","X","Y","Z">>
LowerAlpha == <<"a","b","c","d","e","f","g","h","i","j","k","l","m",
                "n","o","p","q","r","s","t","u","v","w","x","y","z">>

Range(s) == {s[i] : i \in DOMAIN s}

\* [A-Za-z-]
WordChars == Range(UpperAlpha) \cup Range(LowerAlpha) \cup {"-"}

\* The grave accent, U+0060.  It is written by name because the parser
\* does not end a string that holds the character itself at the next quote.
GraveAccent == "GRAVE ACCENT"

\* the 27 characters of the second class of the pattern, from ']' to '-'
PunctChars == {"]", ".", ",", ";", ":", "?", "!", "(", ")", "[", "{", "}",
               "_", "@", "#", "/", "&", "$", "%", "~", GraveAccent, "'", "\"",
               "*", "=", "+", "-"}

\* [0-9]
Digits == {"0","1","2","3","4","5","6","7","8","9"}

\* \s, on the ASCII characters a TLA+ string can hold
SpaceChars == {" ", "\t", "\n", "\r", "\f"}

----------------------------------------------------------------------------
(* The compiled pattern: match() anchors at position 0, fullmatch() has to *)
(* cover the whole text.  Alternatives are tried in the order written.     *)

RECURSIVE RunLen(_, _)
\* length of the longest prefix of text made of characters of S (a greedy X+)
RunLen(text, S) ==
    IF text = <<>> \/ Head(text) \notin S THEN 0
    ELSE 1 + RunLen(Tail(text), S)

Drop(text, n) == SubSeq(text, n + 1, Len(text))
Take(text, n) == SubSeq(text, 1, n)

RECURSIVE NumberGroups(_)
\* text is zero or more groups [.,][0-9]+ and nothing else
NumberGroups(text) ==
    \/ text = <<>>
    \/ /\ Len(text) >= 2
       /\ text[1] \in {".", ","}
       /\ \E k \in 1..RunLen(Tail(text), Digits) : NumberGroups(Drop(text, k + 1))

\* text is [0-9]+(?:[.,][0-9]+)* and nothing else
NumberFull(text) ==
    \E k \in 1..RunLen(text, Digits) : NumberGroups(Drop(text, k))

\* End of the third alternative under match(): [0-9]+ takes the whole digit
\* run, and the lazy (?:...)*? then takes no group at all, because nothing
\* follows it in the alternative and a match of the prefix is enough.
NumberLazyEnd(text) == RunLen(text, Digits)

\* pattern_match with the punctuation class repeated, [...]+
pattern_match_punct_run(text) ==
    IF RunLen(text, WordChars) > 0
        THEN [group |-> 1, end |-> RunLen(text, WordChars)]
    ELSE IF text # <<>> /\ Head(text) \in PunctChars
        THEN [group |-> 2, end |-> RunLen(text, PunctChars)]
    ELSE IF RunLen(text, Digits) > 0
        THEN [group |-> 3, end |-> NumberLazyEnd(text)]
    ELSE IF RunLen(text, SpaceChars) > 0
        THEN [group |-> 4, end |-> RunLen(text, SpaceChars)]
    ELSE [group |-> 0, end |-> 0]

\* _pattern.match(text): the group that matched and where the match ends;
\* group 0 stands for "no match" (None)
pattern_match(text) ==
    IF RunLen(text, WordChars) > 0
        THEN [group |-> 1, end |-> RunLen(text, WordChars)]
    ELSE IF text # <<>> /\ Head(text) \in PunctChars
        THEN [group |-> 2, end |-> 1]
    ELSE IF RunLen(text, Digits) > 0
        THEN [group |-> 3, end |-> NumberLazyEnd(text)]
    ELSE IF RunLen(text, SpaceChars) > 0
        THEN [group |-> 4, end |-> RunLen(text, SpaceChars)]
    ELSE [group |-> 0, end |-> 0]

\* _pattern.fullmatch(text): the group that covers the whole text, 0 if none
pattern_fullmatch(text) ==
    IF text # <<>> /\ RunLen(text, WordChars) = Len(text) THEN 1
    ELSE IF Len(text) = 1 /\ text[1] \in PunctChars THEN 2
    ELSE IF NumberFull(text) THEN 3
    ELSE IF text # <<>> /\ RunLen(text, SpaceChars) = Len(text) THEN 4
    ELSE 0

----------------------------------------------------------------------------
(* Tokens.                                                                 *)

None == [cls |-> "None", token |-> <<>>]
ValueError(text) == [cls |-> "ValueError", token |-> text]
AttributeError(text) == [cls |-> "AttributeError", token |-> text]

IsError(t) == t.cls \in {"ValueError", "AttributeError"}

Token_isword(self) == pattern_fullmatch(self.token) = 1
Token_ispunct(self) == pattern_fullmatch(self.token) = 2
Token_isnumber(self) == pattern_fullmatch(self.token) = 3
Token_iswhitespace(self) == pattern_fullmatch(self.token) = 4

\* the validating constructors
Word(word) ==
    IF Token_isword([cls |-> "Word", token |-> word])
        THEN [cls |-> "Word", token |-> word] ELSE ValueError(word)
Punctuation(punct) ==
    IF Token_ispunct([cls |-> "Punctuation", token |-> punct])
        THEN [cls |-> "Punctuation", token |-> punct] ELSE ValueError(punct)
Number(number) ==
    IF Token_isnumber([cls |-> "Number", token |-> number])
        THEN [cls |-> "Number", token |-> number] ELSE ValueError(number)
Whitespace(whitespace) ==
    IF Token_iswhitespace([cls |-> "Whitespace", token |-> whitespace])
        THEN [cls |-> "Whitespace", token |-> whitespace]
        ELSE ValueError(whitespace)

\* Token.match that returns None where it should raise
Token_match_skips(text) ==
    IF text = <<>> THEN None
    ELSE LET m == pattern_match(text) IN
         CASE m.group = 0 -> None
           [] m.group = 1 -> Word(Take(text, m.end))
           [] m.group = 2 -> Punctuation(Take(text, m.end))
           [] m.group = 3 -> Number(Take(text, m.end))
           [] m.group = 4 -> Whitespace(Take(text, m.end))

\* Token.match: None on the empty text, ValueError carrying the text when no
\* alternative matches, else the token of the first alternative that matches
Token_match(text) ==
    IF text = <<>> THEN None
    ELSE LET m == pattern_match(text) IN
         CASE m.group = 0 -> ValueError(text)
           [] m.group = 1 -> Word(Take(text, m.end))
           [] m.group = 2 -> Punctuation(Take(text, m.end))
           [] m.group = 3 -> Number(Take(text, m.end))
           [] m.group = 4 -> Whitespace(Take(text, m.end))

\* str(token)
Token_str(self) == self.token

\* len(token), which is also the truth value of a token (no __bool__)
Token_len(self) == Len(self.token)
Truthy(t) == t # None /\ Token_len(t) > 0

\* Punctuation.isend: self.token in '.?!' is a substring test
Punctuation_isend(self) ==
    LET ends == <<".", "?", "!">> IN
    \E i \in 1..4 : \E j \in (i - 1)..3 : self.token = SubSeq(ends, i, j)

\* str.lower / str.upper
CharSwap(c) ==
    IF \E i \in 1..26 : UpperAlpha[i] = c
        THEN LowerAlpha[CHOOSE i \in 1..26 : UpperAlpha[i] = c]
    ELSE IF \E i \in 1..26 : LowerAlpha[i] = c
        THEN UpperAlpha[CHOOSE i \in 1..26 : LowerAlpha[i] = c]
    ELSE c
\* str.swapcase in the place of str.lower
str_swapcase(s) == [i \in 1..Len(s) |-> CharSwap(s[i])]
CharLower(c) ==
    IF \E i \in 1..26 : UpperAlpha[i] = c
        THEN LowerAlpha[CHOOSE i \in 1..26 : UpperAlpha[i] = c] ELSE c
CharUpper(c) ==
    IF \E i \in 1..26 : LowerAlpha[i] = c
        THEN UpperAlpha[CHOOSE i \in 1..26 : LowerAlpha[i] = c] ELSE c
str_lower(s) == [i \in 1..Len(s) |-> CharLower(s[i])]
str_upper(s) == [i \in 1..Len(s) |-> CharUpper(s[i])]

\* Word.upper that folds to lower case
Word_upper_lowers(self) ==
    IF self.cls = "Word" THEN Word(str_lower(self.token))
    ELSE AttributeError(self.token)

\* Word.lower / Word.upper; only Word has these methods
Word_lower(self) ==
    IF self.cls = "Word" THEN Word(str_lower(self.token))
    ELSE AttributeError(self.token)
Word_upper(self) ==
    IF self.cls = "Word" THEN Word(str_upper(self.token))
    ELSE AttributeError(self.token)

----------------------------------------------------------------------------
(* Sentence, Paragraph, Document: lists.  transform(func) is the list of  *)
(* func(x) for x in self, in order; filter(func) is the list of the x in   *)
(* self with func(x), in order.                                            *)

Sentence_lower(self) ==
    [i \in 1..Len(self) |->
        IF Token_isword(self[i]) THEN Word_lower(self[i]) ELSE self[i]]
Sentence_upper(self) ==
    [i \in 1..Len(self) |->
        IF Token_isword(self[i]) THEN Word_upper(self[i]) ELSE self[i]]
Sentence_without_punct(self) ==
    SelectSeq(self, LAMBDA t : ~Token_ispunct(t))
Sentence_without_punct_exceptend(self) ==
    SelectSeq(self, LAMBDA t : ~Token_ispunct(t) \/ Punctuation_isend(t))
Sentence_without_whitespace(self) ==
    SelectSeq(self, LAMBDA t : ~Token_iswhitespace(t))
Sentence_without_number(self) ==
    SelectSeq(self, LAMBDA t : ~Token_isnumber(t))
\* tokens is the collection of literal texts
Sentence_without(self, tokens) ==
    SelectSeq(self, LAMBDA t : Token_str(t) \notin tokens)

Paragraph_lower(self) == [i \in 1..Len(self) |-> Sentence_lower(self[i])]
Paragraph_upper(self) == [i \in 1..Len(self) |-> Sentence_upper(self[i])]
\* without_punct that filters the emptied Sentences out
Paragraph_without_punct_drops_empty(self) ==
    SelectSeq([i \in 1..Len(self) |-> Sentence_without_punct(self[i])],
              LAMBDA s : s # <<>>)
Paragraph_without_punct(self) ==
    [i \in 1..Len(self) |-> Sentence_without_punct(self[i])]
Paragraph_without_punct_exceptend(self) ==
    [i \in 1..Len(self) |-> Sentence_without_punct_exceptend(self[i])]
Paragraph_without_whitespace(self) ==
    [i \in 1..Len(self) |-> Sentence_without_whitespace(self[i])]
Paragraph_without_number(self) ==
    [i \in 1..Len(self) |-> Sentence_without_number(self[i])]
Paragraph_without(self, tokens) ==
    [i \in 1..Len(self) |-> Sentence_without(self[i], tokens)]

Document_lower(self) == [i \in 1..Len(self) |-> Paragraph_lower(self[i])]
Document_upper(self) == [i \in 1..Len(self) |-> Paragraph_upper(self[i])]
Document_without_punct(self) ==
    [i \in 1..Len(self) |-> Paragraph_without_punct(self[i])]
Document_without_punct_exceptend(self) ==
    [i \in 1..Len(self) |-> Paragraph_without_punct_exceptend(self[i])]
Document_without_whitespace(self) ==
    [i \in 1..Len(self) |-> Paragraph_without_whitespace(self[i])]
Document_without_number(self) ==
    [i \in 1..Len(self) |-> Paragraph_without_number(self[i])]
Document_without(self, tokens) ==
    [i \in 1..Len(self) |-> Paragraph_without(self[i], tokens)]

----------------------------------------------------------------------------
(* Rendering.                                                              *)

RECURSIVE Join(_, _)
\* sep.join(parts)
Join(parts, sep) ==
    IF parts = <<>> THEN <<>>
    ELSE IF Len(parts) = 1 THEN parts[1]
    ELSE parts[1] \o sep \o Join(Tail(parts), sep)

Sentence_str(self) == Join([i \in 1..Len(self) |-> Token_str(self[i])], <<>>)
Paragraph_str(self) == Join([i \in 1..Len(self) |-> Sentence_str(self[i])], <<>>)
Document_str(self) ==
    Join([i \in 1..Len(self) |-> Paragraph_str(self[i])], <<"\n", "\n">>)

----------------------------------------------------------------------------
(* Splitting a source into lines.                                          *)

RECURSIVE SplitLines(_, _, _)
\* The lines of text: a line ends at a character of breaks ("\r\n" counts as
\* one break when "\r" is a break) and keeps its break when keepends; a last
\* line without a break is a line when it is not empty.
SplitLines(text, breaks, keepends) ==
    IF text = <<>> THEN <<>>
    ELSE LET n == RunLen(text, Range(text) \ breaks) IN
         IF n = Len(text) THEN <<text>>
         ELSE LET b == IF /\ text[n + 1] = "\r"
                          /\ n + 2 <= Len(text)
                          /\ text[n + 2] = "\n"
                          /\ "\n" \in breaks
                       THEN 2 ELSE 1
              IN  <<Take(text, IF keepends THEN n + b ELSE n)>>
                    \o SplitLines(Drop(text, n + b), breaks, keepends)

RECURSIVE SplitOnNewline(_)
\* text.split('\n'): an empty last piece is kept
SplitOnNewline(text) ==
    LET n == RunLen(text, Range(text) \ {"\n"}) IN
    IF n = Len(text) THEN <<text>>
    ELSE <<Take(text, n)>> \o SplitOnNewline(Drop(text, n + 1))

\* splitlines written as split('\n')
str_splitlines_as_split(text) == SplitOnNewline(text)

\* str.splitlines(): the breaks are dropped
str_splitlines(text) == SplitLines(text, {"\n", "\r", "\f"}, FALSE)
\* io.IOBase.readlines(): every line keeps its "\n"
readlines(text) == SplitLines(text, {"\n"}, TRUE)

----------------------------------------------------------------------------
(* Document._paragraph.                                                    *)

\* LoopBody without "sentence = Sentence()": a closed sentence keeps growing
LoopBody_keeps_sentence(s, tok) ==
    IF Token_ispunct(tok) /\ Punctuation_isend(tok)
        THEN [line      |-> Drop(s.line, Token_len(tok)),
              sentence  |-> Append(s.sentence, tok),
              paragraph |-> Append(s.paragraph, Append(s.sentence, tok))]
        ELSE [line      |-> Drop(s.line, Token_len(tok)),
              sentence  |-> Append(s.sentence, tok),
              paragraph |-> s.paragraph]

\* LoopBody with "line = line[len(token):]" inside the if: the line
\* advances past terminal tokens only
LoopBody_advances_in_if(s, tok) ==
    IF Token_ispunct(tok) /\ Punctuation_isend(tok)
        THEN [line      |-> Drop(s.line, Token_len(tok)),
              sentence  |-> <<>>,
              paragraph |-> Append(s.paragraph, Append(s.sentence, tok))]
        ELSE [line      |-> s.line,
              sentence  |-> Append(s.sentence, tok),
              paragraph |-> s.paragraph]

\* LoopBody that closes the sentence before the terminal token joins it
LoopBody_drops_terminal(s, tok) ==
    IF Token_ispunct(tok) /\ Punctuation_isend(tok)
        THEN [line      |-> Drop(s.line, Token_len(tok)),
              sentence  |-> <<>>,
              paragraph |-> Append(s.paragraph, s.sentence)]
        ELSE [line      |-> Drop(s.line, Token_len(tok)),
              sentence  |-> Append(s.sentence, tok),
              paragraph |-> s.paragraph]

\* One pass of the while body with the matched token: the token joins the
\* sentence in progress, a terminal token closes the sentence, and the line
\* advances by len(token).
LoopBody(s, tok) ==
    IF Token_ispunct(tok) /\ Punctuation_isend(tok)
        THEN [line      |-> Drop(s.line, Token_len(tok)),
              sentence  |-> <<>>,
              paragraph |-> Append(s.paragraph, Append(s.sentence, tok))]
        ELSE [line      |-> Drop(s.line, Token_len(tok)),
              sentence  |-> Append(s.sentence, tok),
              paragraph |-> s.paragraph]

RECURSIVE ParagraphLoop(_)
ParagraphLoop(s) ==
    LET tok == Token_match(s.line) IN
    IF IsError(tok) THEN [raised |-> TRUE, err |-> tok.token, value |-> <<>>]
    ELSE IF ~Truthy(tok) THEN [raised |-> FALSE, err |-> <<>>, value |-> s.paragraph]
    ELSE ParagraphLoop(LoopBody(s, tok))

\* the whole call: the Paragraph of the line, or the error it raises
Document_paragraph(ln) ==
    ParagraphLoop([line |-> ln, sentence |-> <<>>, paragraph |-> <<>>])

\* Document.__init__: a str is split by splitlines, a stream by readlines,
\* and each line goes through _paragraph, the first error ending the call;
\* any other iterable is stored element by element as it is.
Document_init(form, value) ==
    IF form \in {"str", "stream"}
    THEN LET ls == IF form = "str" THEN str_splitlines(value) ELSE readlines(value)
             rs == [i \in 1..Len(ls) |-> Document_paragraph(ls[i])]
             bad == {i \in 1..Len(ls) : rs[i].raised}
         IN  IF bad # {}
             THEN [raised |-> TRUE,
                   err |-> rs[CHOOSE i \in bad : \A j \in bad : i <= j].err,
                   of |-> "Paragraph", list |-> <<>>]
             ELSE [raised |-> FALSE, err |-> <<>>, of |-> "Paragraph",
                   list |-> [i \in 1..Len(ls) |-> rs[i].value]]
    ELSE [raised |-> FALSE, err |-> <<>>, of |-> "str", list |-> value]

\* Token.__eq__ compares the texts; list equality is element by element, and
\* a str element never equals a Paragraph
TokenTexts(doc) ==
    [i \in 1..Len(doc) |-> [j \in 1..Len(doc[i]) |->
        [k \in 1..Len(doc[i][j]) |-> doc[i][j][k].token]]]
Document_eq(a, b) ==
    /\ Len(a.list) = Len(b.list)
    /\ \/ Len(a.list) = 0
       \/ /\ a.of = b.of
          /\ IF a.of = "Paragraph" THEN TokenTexts(a.list) = TokenTexts(b.list)
             ELSE a.list = b.list

----------------------------------------------------------------------------
(* Inputs.                                                                 *)

\* all texts of at most n characters of alphabet
Texts(alphabet, n) == UNION {[1..k -> alphabet] : k \in 0..n}

\* a letter, two terminal punctuations, a digit, a space, the line break, and
\* a character no alternative of the pattern covers
BuildAlphabet == {"a", ".", "!", "1", " ", "\n", "^"}

\* a letter of each case, the hyphen, a terminal and a non-terminal
\* punctuation, a digit, a space and the line break
PipelineAlphabet == {"a", "A", "-", ".", ",", "1", " ", "\n"}

\* a letter, a terminal punctuation, the line break (a whitespace for a
\* stream, whose lines keep it) and an unclassifiable character
LoopAlphabet == {"a", ".", "\n", "^"}

\* the classifier's inputs: a first character, every punctuation among
\* them, followed by a short text
FirstChars == PunctChars \cup {"a", "1", " ", "^"}
TailAlphabet == {"a", "-", "1", ".", ",", " "}
MatchInputs ==
    {<<c>> \o s : c \in FirstChars, s \in Texts(TailAlphabet, MaxTail)}
        \cup {<<"1", "2", ".", "3", "4", "5", ",", "6", "7">>}

\* the literal lists given to without()
WithoutArgs == {{<<"a">>}, {<<".">>}, {<<"a">>, <<".">>}}

----------------------------------------------------------------------------
(* The program: Document(source), then the pipeline on the built Document. *)
(*                                                                         *)
(* pc: "init"      Document.__init__ is entered with its argument          *)
(*     "next"      list.__init__ asks the map for the next Paragraph       *)
(*     "loop"      _paragraph is at the head of its while loop             *)
(*     "built"     the constructor has returned: cur is the Document, and  *)
(*                 the argument and the locals still show how it was built *)
(*     "pipeline"  a pipeline call has returned: cur is its result, prev   *)
(*                 the Document it was called on                           *)
(*     "error"     an exception left the constructor or a pipeline call    *)
(* mtext and token are the argument and result of the last Token.match.    *)

NoSource == [form |-> "none", text |-> <<>>]
NoCall == [name |-> "none", arg |-> {}]

Start(forms, texts) ==
    /\ source \in [form : forms, text : texts]
    /\ pc = "init"
    /\ lines = <<>>
    /\ idx = 0
    /\ line = <<>>
    /\ sentence = <<>>
    /\ paragraph = <<>>
    /\ document = <<>>
    /\ mtext = <<>>
    /\ token = None
    /\ err = <<>>
    /\ cur = <<>>
    /\ prev = <<>>
    /\ op = NoCall

Init == Start({"str", "stream"}, Texts(BuildAlphabet, MaxText))

InitPipeline ==
    Start({"str", "stream"}, Texts(PipelineAlphabet, MaxText) \cup {<<"^">>})

InitMatch == Start({"str"}, MatchInputs)

InitLoop == Start({"str", "stream"}, Texts(LoopAlphabet, MaxText))

\* Document.__init__, lines 227-230: the source is split into lines
Split ==
    /\ pc = "init"
    /\ lines' = IF source.form = "str" THEN str_splitlines(source.text)
                ELSE readlines(source.text)
    /\ idx' = 1
    /\ pc' = "next"
    /\ UNCHANGED <<source, line, sentence, paragraph, document, mtext, token,
                   err, cur, prev, op>>

\* _paragraph is called on the next line, lines 235-236
ParagraphEnter ==
    /\ pc = "next"
    /\ idx <= Len(lines)
    /\ line' = lines[idx]
    /\ sentence' = <<>>
    /\ paragraph' = <<>>
    /\ pc' = "loop"
    /\ UNCHANGED <<source, lines, idx, document, mtext, token, err, cur, prev, op>>

\* one iteration of the while loop, lines 238-246
Loop ==
    /\ pc = "loop"
    /\ LET tok == Token_match(line) IN
       /\ ~IsError(tok)
       /\ Truthy(tok)
       /\ mtext' = line
       /\ token' = tok
       /\ LET s == LoopBody([line |-> line, sentence |-> sentence,
                             paragraph |-> paragraph], tok)
          IN  /\ line' = s.line
              /\ sentence' = s.sentence
              /\ paragraph' = s.paragraph
    /\ UNCHANGED <<source, pc, lines, idx, document, err, cur, prev, op>>

\* the loop ends and the Paragraph is returned, line 248
ParagraphReturn ==
    /\ pc = "loop"
    /\ LET tok == Token_match(line) IN
       /\ ~IsError(tok)
       /\ ~Truthy(tok)
       /\ mtext' = line
       /\ token' = tok
    /\ document' = Append(document, paragraph)
    /\ idx' = idx + 1
    /\ pc' = "next"
    /\ UNCHANGED <<source, lines, line, sentence, paragraph, err, cur, prev, op>>

\* Token.match raises, line 43: the exception leaves the constructor
Raise ==
    /\ pc = "loop"
    /\ LET tok == Token_match(line) IN
       /\ IsError(tok)
       /\ mtext' = line
       /\ token' = tok
       /\ err' = tok.token
    /\ pc' = "error"
    /\ UNCHANGED <<source, lines, idx, line, sentence, paragraph, document,
                   cur, prev, op>>

\* the map is exhausted: the constructor returns, line 232
Built ==
    /\ pc = "next"
    /\ idx > Len(lines)
    /\ cur' = document
    /\ pc' = "built"
    /\ UNCHANGED <<source, lines, idx, line, sentence, paragraph, document,
                   mtext, token, err, prev, op>>

\* some token of doc is an exception raised while doc was computed
Raised(doc) ==
    \E i \in 1..Len(doc) : \E j \in 1..Len(doc[i]) :
        \E k \in 1..Len(doc[i][j]) : IsError(doc[i][j][k])

\* A pipeline call on the current Document.  The result replaces it and the
\* Document the call was made on is kept in prev; the call works on the
\* Document alone, the constructor's argument and locals are gone.
Call(name, arg, result) ==
    /\ pc \in {"built", "pipeline"}
    /\ op' = [name |-> name, arg |-> arg]
    /\ prev' = cur
    /\ IF Raised(result)
       THEN /\ pc' = "error"
            /\ UNCHANGED cur
       ELSE /\ pc' = "pipeline"
            /\ cur' = result
    /\ source' = NoSource
    /\ lines' = <<>>
    /\ idx' = 0
    /\ line' = <<>>
    /\ sentence' = <<>>
    /\ paragraph' = <<>>
    /\ document' = <<>>
    /\ mtext' = <<>>
    /\ token' = None
    /\ UNCHANGED err

Lower == Call("lower", {}, Document_lower(cur))
Upper == Call("upper", {}, Document_upper(cur))
WithoutPunct == Call("without_punct", {}, Document_without_punct(cur))
WithoutPunctExceptEnd ==
    Call("without_punct_exceptend", {}, Document_without_punct_exceptend(cur))
WithoutWhitespace == Call("without_whitespace", {}, Document_without_whitespace(cur))
WithoutNumber == Call("without_number", {}, Document_without_number(cur))
Without == \E tokens \in WithoutArgs : Call("without", tokens, Document_without(cur, tokens))

Build == Split \/ ParagraphEnter \/ Loop \/ ParagraphReturn \/ Raise \/ Built

Next ==
    \/ Split
    \/ ParagraphEnter
    \/ Loop
    \/ ParagraphReturn
    \/ Raise
    \/ Built
    \/ Lower
    \/ Upper
    \/ WithoutPunct
    \/ WithoutPunctExceptEnd
    \/ WithoutWhitespace
    \/ WithoutNumber
    \/ Without

\* the tokenizer and the builder on texts with unclassifiable characters
Spec == Init /\ [][Next]_vars
\* the same program on texts with both letter cases and both punctuations
SpecPipeline == InitPipeline /\ [][Next]_vars
\* the same program on one-line texts that start with every punctuation
SpecMatch == InitMatch /\ [][Next]_vars
\* The constructor alone.  The code is synchronous and single-threaded, so
\* a call that can take a step takes it.
FairSpec == InitLoop /\ [][Build]_vars /\ WF_vars(Build)

----------------------------------------------------------------------------
(* What the properties below are stated with.                              *)

\* a Punctuation token whose text is '.', '?' or '!'
IsTerminal(t) == t.cls = "Punctuation" /\ t.token \in {<<".">>, <<"?">>, <<"!">>}

RECURSIVE Tokens(_)
\* the tokens of a line, in order, up to its end or its first unclassifiable text
Tokens(ln) ==
    LET t == Token_match(ln) IN
    IF IsError(t) \/ ~Truthy(t) THEN <<>>
    ELSE <<t>> \o Tokens(Drop(ln, Token_len(t)))

\* the positions of the terminal tokens of T
TerminalEnds(T) == {k \in 1..Len(T) : IsTerminal(T[k])}
\* the k-th of them
EndAt(T, k) ==
    CHOOSE e \in TerminalEnds(T) : Cardinality({x \in TerminalEnds(T) : x <= e}) = k
\* the consecutive runs of T that each end at a terminal token
Runs(T) ==
    [k \in 1..Cardinality(TerminalEnds(T)) |->
        SubSeq(T, IF k = 1 THEN 1 ELSE EndAt(T, k - 1) + 1, EndAt(T, k))]

\* the constructor is running or has just returned
Constructing == pc \in {"next", "loop", "built"}

----------------------------------------------------------------------------
(* C1: every Paragraph that _paragraph has returned holds exactly the      *)
(* consecutive runs of its line's tokens that end at a terminal token: each *)
(* Sentence is non-empty, ends with a terminal token and holds no other,   *)
(* the tokens after the last terminal token are in no Sentence, and a line *)
(* without terminal punctuation gives a Paragraph without Sentences.       *)
C1_ParagraphIsTerminalRuns ==
    Constructing =>
        \A i \in 1..Len(document) :
            LET T == Tokens(lines[i])
                P == document[i]
            IN  /\ P = Runs(T)
                /\ \A j \in 1..Len(P) :
                      /\ P[j] # <<>>
                      /\ IsTerminal(P[j][Len(P[j])])
                      /\ \A k \in 1..(Len(P[j]) - 1) : ~IsTerminal(P[j][k])
                /\ TerminalEnds(T) = {} => P = <<>>

\* a built line with two Sentences and a dropped tail
C1_Witness ==
    /\ pc = "built"
    /\ \E i \in 1..Len(cur) :
          /\ Len(cur[i]) = 2
          /\ Len(Paragraph_str(cur[i])) < Len(lines[i])

\* a built whitespace-only line: its Paragraph has no Sentence
C1_WitnessBlank ==
    /\ pc = "built"
    /\ \E i \in 1..Len(cur) :
          /\ lines[i] # <<>>
          /\ Range(lines[i]) \subseteq SpaceChars
          /\ cur[i] = <<>>

----------------------------------------------------------------------------
\* Token.match has been called on a non-empty text: mtext is that text and
\* token what the call gave
Matched == pc \in {"loop", "next", "built", "error"} /\ mtext # <<>>

\* the longest prefix of text of the form digits ([.,] digits)*
GreedyNumberEnd(text) ==
    CHOOSE k \in 0..Len(text) :
        /\ k = 0 \/ NumberFull(Take(text, k))
        /\ \A n \in (k + 1)..Len(text) : ~NumberFull(Take(text, n))

(* C2: on a text that starts with a digit Token.match returns one Number   *)
(* token that covers the longest prefix of the form digits ([.,] digits)*, *)
(* so "12.345,67" is one Number token of length 9.                         *)
C2_NumberIsGreedy ==
    (Matched /\ mtext[1] \in Digits) =>
        token = [cls |-> "Number", token |-> Take(mtext, GreedyNumberEnd(mtext))]

\* what the code returns instead: the leading digit run
C2_NumberIsDigitRun ==
    (Matched /\ mtext[1] \in Digits) =>
        token = [cls |-> "Number", token |-> Take(mtext, RunLen(mtext, Digits))]

\* Token.match has been called on "12.345,67"
C2_Example ==
    /\ Matched
    /\ mtext = <<"1", "2", ".", "3", "4", "5", ",", "6", "7">>
    /\ token = [cls |-> "Number", token |-> <<"1", "2">>]

----------------------------------------------------------------------------
\* the punctuation set as the claim lists it
ClaimedPunctuation ==
    {"]", ".", ",", ";", ":", "?", "!", "(", ")", "[", "{", "}", "_", "@",
     "#", "/", "&", "$", "%", "~", GraveAccent, "'", "\"", "*", "=", "+",
     "-"}

(* C3 as stated: on a text that starts with any character p of the         *)
(* punctuation set, the hyphen included, Token.match returns the           *)
(* Punctuation token p, of length 1.                                       *)
C3_EveryPunctuationMatches ==
    (Matched /\ mtext[1] \in ClaimedPunctuation) =>
        token = [cls |-> "Punctuation", token |-> <<mtext[1]>>]

(* C3 as amended: this holds of every character of the set but the hyphen; *)
(* on a text that starts with a hyphen Token.match returns a Word token    *)
(* that covers the longest leading run of letters and hyphens.             *)
C3_PunctuationButHyphenMatches ==
    (Matched /\ mtext[1] \in ClaimedPunctuation) =>
        IF mtext[1] = "-"
        THEN token = [cls |-> "Word", token |-> Take(mtext, RunLen(mtext, WordChars))]
        ELSE token = [cls |-> "Punctuation", token |-> <<mtext[1]>>]

\* Token.match has returned a Punctuation token for a punctuation that other
\* punctuation follows
C3_Witness ==
    /\ Matched
    /\ Len(mtext) = 3
    /\ mtext[1] = "]"
    /\ mtext[2] \in ClaimedPunctuation
    /\ token = [cls |-> "Punctuation", token |-> <<"]">>]

\* Token.match has returned a Word token for a hyphen that a letter follows
C3_WitnessHyphen ==
    /\ Matched
    /\ mtext = <<"-", "a", ".">>
    /\ token = [cls |-> "Word", token |-> <<"-", "a">>]

----------------------------------------------------------------------------
\* the characters some alternative of the pattern covers
CoveredChars == WordChars \cup PunctChars \cup Digits \cup SpaceChars
AllCovered(t) == Range(t) \subseteq CoveredChars

(* C5: the constructor ends with the invalid-token error exactly when some *)
(* line holds a character that no pattern covers, also when that character *)
(* lies after the last terminal token of its line; the error carries the   *)
(* text that remained, which starts at the first such character of the     *)
(* first such line; no Document is returned, and nothing runs after it.    *)
C5_InvalidTokenAbortsBuild ==
    /\ pc = "error" =>
          /\ op = NoCall
          /\ idx \in 1..Len(lines)
          /\ \A i \in 1..(idx - 1) : AllCovered(lines[i])
          /\ ~AllCovered(lines[idx])
          /\ err = Drop(lines[idx], RunLen(lines[idx], CoveredChars))
          /\ err = line /\ err # <<>>
          /\ token = ValueError(err)
          /\ cur = <<>>
          /\ ~ENABLED Next
    /\ pc = "built" => AllCovered(source.text)
    /\ (pc # "init" /\ op = NoCall /\ AllCovered(source.text)) => pc # "error"

\* the error is raised on the second line, after a complete Sentence of it
C5_Witness ==
    /\ pc = "error"
    /\ Len(document) = 1 /\ document[1] # <<>>
    /\ paragraph # <<>>
    /\ sentence = <<>>

----------------------------------------------------------------------------
\* the prefix of a line up to and including its last terminal token
LastTerminalPrefix(ln) ==
    LET T == Tokens(ln)
        E == TerminalEnds(T)
        last == CHOOSE e \in E : \A x \in E : x <= e
    IN  IF E = {} THEN <<>>
        ELSE Take(ln, Len(Sentence_str(SubSeq(T, 1, last))))

RECURSIVE BlankLineJoin(_)
\* the parts with two newline characters between neighbours
BlankLineJoin(parts) ==
    IF Len(parts) = 0 THEN <<>>
    ELSE IF Len(parts) = 1 THEN parts[1]
    ELSE BlankLineJoin(SubSeq(parts, 1, Len(parts) - 1))
            \o <<"\n", "\n">> \o parts[Len(parts)]

(* C6: a built Document has one Paragraph per line, each Paragraph renders *)
(* as its line cut after the last terminal token (the empty text when the  *)
(* line has none), and the Document renders as these joined by two newline *)
(* characters.                                                             *)
C6_RenderIsLineWithoutTail ==
    pc = "built" =>
        /\ Len(cur) = Len(lines)
        /\ \A i \in 1..Len(cur) : Paragraph_str(cur[i]) = LastTerminalPrefix(lines[i])
        /\ Document_str(cur) =
              BlankLineJoin([i \in 1..Len(lines) |-> LastTerminalPrefix(lines[i])])

\* two lines are built, both with a Sentence, the first with a dropped tail
C6_Witness ==
    /\ pc = "built"
    /\ Len(cur) = 2
    /\ cur[1] # <<>> /\ cur[2] # <<>>
    /\ Len(Paragraph_str(cur[1])) + 1 < Len(lines[1])

----------------------------------------------------------------------------
\* the sequence of lines whose join by "\n" is text
LinesOf(t) == SplitOnNewline(t)

\* the Document the constructor has returned
Returned == [raised |-> FALSE, err |-> <<>>, of |-> "Paragraph", list |-> cur]

C4_WitnessEmptyLastLine ==
    /\ pc = "built"
    /\ source.form = "str"
    /\ Len(source.text) = MaxText
    /\ source.text[MaxText] = "\n"
    /\ Len(cur) = 2

----------------------------------------------------------------------------
(* C10: the while loop of _paragraph ends.  Every iteration matches a      *)
(* token of at least one character and cuts it off the line, so the line   *)
(* gets shorter; the loop is left by the return only on the empty line and *)
(* by the error at the first text nothing matches; once entered, the loop  *)
(* is left.                                                                *)
C10_LoopTerminates ==
    /\ [][(pc = "loop" /\ pc' = "loop") =>
            /\ Token_len(token') >= 1
            /\ line' = Drop(line, Token_len(token'))
            /\ Len(line') < Len(line)]_vars
    /\ [][(pc = "loop" /\ pc' = "next") => line = <<>>]_vars
    /\ [][(pc = "loop" /\ pc' = "error") =>
            (line # <<>> /\ pattern_match(line).group = 0 /\ line' = line)]_vars
    /\ [](pc = "loop" => <>(pc # "loop"))

\* the loop has run three times on the first line and has returned
C10_Witness ==
    /\ pc = "next"
    /\ idx = 2
    /\ Len(Tokens(lines[1])) >= 3
    /\ line = <<>>

----------------------------------------------------------------------------
Filters == {"without_punct", "without_punct_exceptend", "without_whitespace",
            "without_number", "without"}

\* the drop condition of each filter, on the kind the token was built with
Dropped(name, arg, t) ==
    CASE name = "without_punct" -> t.cls = "Punctuation"
      [] name = "without_punct_exceptend" -> t.cls = "Punctuation" /\ ~IsTerminal(t)
      [] name = "without_whitespace" -> t.cls = "Whitespace"
      [] name = "without_number" -> t.cls = "Number"
      [] name = "without" -> t.token \in arg

SameShape(a, b) ==
    /\ Len(a) = Len(b)
    /\ \A i \in 1..Len(a) : Len(a[i]) = Len(b[i])

(* C7: each filter returns a Document with the Paragraphs and Sentences of *)
(* its input, in number and order, an emptied Sentence included; every     *)
(* Sentence of the result is the Sentence of the input without the tokens  *)
(* that meet the filter's drop condition, the others in their order.       *)
C7_FiltersKeepShape ==
    op.name \in Filters =>
        /\ pc = "pipeline"
        /\ SameShape(prev, cur)
        /\ \A i \in 1..Len(prev) : \A j \in 1..Len(prev[i]) :
              cur[i][j] = SelectSeq(prev[i][j],
                                    LAMBDA t : ~Dropped(op.name, op.arg, t))

\* without_punct has emptied a Sentence and has kept it, beside a Sentence
\* that keeps a token
C7_Witness ==
    /\ pc = "pipeline"
    /\ op.name = "without_punct"
    /\ \E i \in 1..Len(prev) : \E j, k \in 1..Len(prev[i]) :
          /\ prev[i][j] # <<>>
          /\ cur[i][j] = <<>>
          /\ cur[i][k] # <<>>

\* without(["a"]) has removed "a" from a Sentence and has left "A" in it
C7_WitnessLiteral ==
    /\ pc = "pipeline"
    /\ op = [name |-> "without", arg |-> {<<"a">>}]
    /\ \E i \in 1..Len(prev) : \E j \in 1..Len(prev[i]) :
          /\ \E k \in 1..Len(prev[i][j]) : prev[i][j][k].token = <<"a">>
          /\ \E k \in 1..Len(cur[i][j]) : cur[i][j][k].token = <<"A">>

----------------------------------------------------------------------------
(* C8: lower and upper return a Document of the shape of their input, in   *)
(* which each Word is a Word with the case-folded text and every other     *)
(* token is the token of the input; the input, kept in prev, is as it was. *)
C8_CaseFoldsWordsOnly ==
    op.name \in {"lower", "upper"} =>
        /\ pc = "pipeline"
        /\ SameShape(prev, cur)
        /\ \A i \in 1..Len(prev) : \A j \in 1..Len(prev[i]) :
              /\ Len(cur[i][j]) = Len(prev[i][j])
              /\ \A k \in 1..Len(prev[i][j]) :
                    LET a == prev[i][j][k]
                        b == cur[i][j][k]
                    IN  IF a.cls = "Word"
                        THEN b = [cls |-> "Word",
                                  token |-> IF op.name = "lower"
                                            THEN str_lower(a.token)
                                            ELSE str_upper(a.token)]
                        ELSE b = a

\* upper has changed a Word of a Sentence that also holds another token
C8_Witness ==
    /\ pc = "pipeline"
    /\ op.name = "upper"
    /\ \E i \in 1..Len(prev) : \E j \in 1..Len(prev[i]) :
          \E k, m \in 1..Len(prev[i][j]) :
              /\ prev[i][j][k].cls = "Word"
              /\ cur[i][j][k] # prev[i][j][k]
              /\ prev[i][j][m].cls # "Word"

----------------------------------------------------------------------------
\* equality of Documents: the same texts in the same places
SameTexts(a, b) == TokenTexts(a) = TokenTexts(b)

(* C9: lower and without_punct are idempotent on every Document that the   *)
(* constructor or a pipeline call has returned; in particular a Document   *)
(* that lower (without_punct) has returned is left as it is by lower       *)
(* (without_punct).                                                        *)
C9_Idempotent ==
    pc \in {"built", "pipeline"} =>
        /\ SameTexts(Document_lower(Document_lower(cur)), Document_lower(cur))
        /\ SameTexts(Document_without_punct(Document_without_punct(cur)),
                     Document_without_punct(cur))
        /\ op.name = "lower" => SameTexts(Document_lower(cur), cur)
        /\ op.name = "without_punct" => SameTexts(Document_without_punct(cur), cur)

\* lower has changed a Document that still holds punctuation
C9_Witness ==
    /\ pc = "pipeline"
    /\ op.name = "lower"
    /\ ~SameTexts(prev, cur)
    /\ ~SameTexts(Document_without_punct(cur), cur)

====
